---- MODULE Spec2Model ----
(***************************************************************************)
(* A model of the posts application of openbook-api                        *)
(* (src/openbook_posts/models.py): the Post, PostImage, PostVideo,         *)
(* PostComment and PostReaction tables, the operations of their model      *)
(* classes, and the posts endpoint exercised by                            *)
(* src/openbook_posts/tests/views/test_posts.py.                           *)
(*                                                                         *)
(* The database runs in autocommit mode (create_post opens no              *)
(* transaction): every ORM call commits on its own, so a call that raises  *)
(* part-way leaves what the earlier calls wrote.                           *)
(***************************************************************************)
EXTENDS Integers, Sequences, FiniteSets, TLC

(* ------------------------------ bounds --------------------------------- *)

NumUsers == 3
NumAuthors == 2
NumCircles == 2
NumLists == 2
MaxPosts == 2
MaxComments == 1
MaxReactions == 2
MaxInFlight == 2
MaxTime == 2
MaxEdges == 2
MaxJobs == 2
NumEmojis == 2

(* ----------------------------- constants ------------------------------- *)

\* Python's None for id-like and time-like values; ids and clock readings
\* start at 1, so 0 is both "absent" and falsy, as None is.
None == 0

\* The NULL of the text column (text is null=True and has no default).
NullText == "<NULL>"

\* No uploaded file (image=None, video=None).
NoFile == ""

\* Circle.get_world_circle_id(): the circle that denotes public visibility.
WorldCircle == 1

Users == 1..NumUsers
\* The users who post, comment and react where who reads is of no concern.
Authors == 1..NumAuthors
UserCircles == 2..(NumCircles + 1)
Circles == {WorldCircle} \cup UserCircles
\* An id for which the circles table holds no row.
BadCircle == NumCircles + 2
Lists == 1..NumLists
\* The creator of each circle and of each list: two of each per user.
CircleCreator(circle) == 1 + ((circle - 2) \div 2)
ListCreator(list) == 1 + ((list - 1) \div 2)
CirclesOf(user) == {circle \in UserCircles : CircleCreator(circle) = user}
ListsOf(user) == {list \in Lists : ListCreator(list) = user}
Emojis == 1..NumEmojis
\* A timestamp before the clock's first reading, for create_post(created=...).
EarlyTime == None + 1

\* The values create_post is called with.
TextArgs == {NullText, "", "hello"}
ImageArgs == {NoFile, "a.jpg"}
VideoArgs == {NoFile, "a.mp4"}
CreatedArgs == {None, EarlyTime}
CirclesIdsArgs == {{WorldCircle}, {WorldCircle + 1}, {BadCircle}}

(* ------------------------------- state --------------------------------- *)

VARIABLES
    posts,          \* Post rows: [id, text, created, creator]
    postImages,     \* PostImage rows: [id, post, image]
    postVideos,     \* PostVideo rows: [id, post, video]
    postCircles,    \* rows of the Post.circles many-to-many table: <<post, circle>>
    comments,       \* PostComment rows: [id, post, created, commenter, text]
    reactions,      \* PostReaction rows: [id, post, created, reactor, emoji]
    inFlight,       \* per request worker, the PostReaction whose save() has not written yet
    jobs,           \* the job queue: the conversion jobs enqueued so far
    seq,            \* the autoincrement counter of each table
    now,            \* timezone.now()
    follows,        \* Follow rows: [user, followed, list]
    connections,    \* Connection rows: [user, target, circle]
    response        \* what the last operation returned or raised

db == <<posts, postImages, postVideos, postCircles, comments, reactions, jobs, seq>>
graph == <<follows, connections>>
vars == <<posts, postImages, postVideos, postCircles, comments, reactions, inFlight, jobs, seq, now,
          follows, connections, response>>

\* Python truthiness of a text, of an uploaded file, of an id or a timestamp.
TruthyText(text) == text \notin {NullText, ""}
TruthyFile(file) == file # NoFile
Truthy(n) == n # None

PostIds == {p.id : p \in posts}
PostWithId(id) == CHOOSE p \in posts : p.id = id

Init ==
    /\ posts = {}
    /\ postImages = {}
    /\ postVideos = {}
    /\ postCircles = {}
    /\ comments = {}
    /\ reactions = {}
    /\ inFlight = [worker \in 1..MaxInFlight |-> [id |-> None, post |-> None, created |-> None, reactor |-> None, emoji |-> None]]
    /\ jobs = <<>>
    /\ seq = [post |-> 0, image |-> 0, video |-> 0, comment |-> 0, reaction |-> 0]
    /\ now = EarlyTime + 1
    /\ follows = {}
    /\ connections = {}
    /\ response = [op |-> "init"]

\* The clock advances.
Tick ==
    /\ now < EarlyTime + MaxTime
    /\ now' = now + 1
    /\ response' = [op |-> "tick"]
    /\ UNCHANGED <<db, inFlight, graph>>

(* ------------------------------- Post ---------------------------------- *)

PostSave_Always(instance, clock) == [instance EXCEPT !.created = clock]

\* Post.save: "On save, update timestamps", then Model.save.
PostSave(instance, clock) ==
    IF ~Truthy(instance.id) /\ ~Truthy(instance.created)
    THEN [instance EXCEPT !.created = clock]
    ELSE instance

\* create_post's two checks.
MissingContent_Skipped(text, image, video) == FALSE

MissingContent(text, image, video) ==
    ~TruthyText(text) /\ ~TruthyFile(image) /\ ~TruthyFile(video)

ImageAndVideo_Skipped(image, video) == FALSE

ImageAndVideo(image, video) ==
    TruthyFile(image) /\ TruthyFile(video)

CirclesAdd_Dropped(through, pk, circles_ids) == through

\* post.circles.add(*circles_ids): one INSERT of the missing rows.
CirclesAdd(through, pk, circles_ids) ==
    through \cup {<<pk, c>> : c \in circles_ids}

ConvertVideo_Twice(queue, pk) ==
    Append(Append(queue, [task |-> "convert_all_videos", app_label |-> "openbook_posts",
                          model_name |-> "postvideo", pk |-> pk, status |-> "queued"]),
           [task |-> "convert_all_videos", app_label |-> "openbook_posts",
            model_name |-> "postvideo", pk |-> pk, status |-> "queued"])

\* convert_video, the post_save receiver of PostVideo: enqueue returns once the
\* job is on the queue.
ConvertVideo(queue, pk) ==
    Append(queue, [task |-> "convert_all_videos", app_label |-> "openbook_posts",
                   model_name |-> "postvideo", pk |-> pk, status |-> "queued"])

\* What Post.create_post returns or raises.
CreatePostOutcome(circles_ids, image, text, video) ==
    IF MissingContent(text, image, video)
    THEN [outcome |-> "ValidationError", detail |-> "A post requires text or an image/video."]
    ELSE IF ImageAndVideo(image, video)
    THEN [outcome |-> "ValidationError", detail |-> "A post must have an image or a video, not both."]
    \* the foreign key of the many-to-many table to the circles table
    ELSE IF ~(circles_ids \subseteq Circles)
    THEN [outcome |-> "IntegrityError", detail |-> ""]
    ELSE [outcome |-> "ok", detail |-> ""]

\* Post.create_post: what it writes.
CreatePost(creator, circles_ids, image, text, video, created) ==
    LET outcome == CreatePostOutcome(circles_ids, image, text, video).outcome
        pk == seq.post + 1
        \* Post.objects.create(creator=creator, created=created)
        created_row == [PostSave([id |-> None, text |-> NullText, created |-> created,
                                  creator |-> creator], now) EXCEPT !.id = pk]
        \* post.text = text, on the instance only
        instance == IF TruthyText(text) THEN [created_row EXCEPT !.text = text]
                    ELSE created_row
    IN
    IF outcome = "ValidationError"
    THEN UNCHANGED <<db, inFlight, now, graph>>
    ELSE
        /\ seq.post < MaxPosts
        \* post.save() is reached only when nothing before it raised
        /\ posts' = posts \cup {IF outcome = "ok" THEN PostSave(instance, now) ELSE created_row}
        /\ postImages' = IF TruthyFile(image)
                         THEN postImages \cup {[id |-> seq.image + 1, post |-> pk, image |-> image]}
                         ELSE postImages
        /\ postVideos' = IF TruthyFile(video)
                         THEN postVideos \cup {[id |-> seq.video + 1, post |-> pk, video |-> video]}
                         ELSE postVideos
        /\ jobs' = IF TruthyFile(video) THEN ConvertVideo(jobs, seq.video + 1) ELSE jobs
        /\ postCircles' = IF outcome = "ok" THEN CirclesAdd(postCircles, pk, circles_ids)
                          ELSE postCircles
        /\ seq' = [seq EXCEPT !.post = pk,
                              !.image = IF TruthyFile(image) THEN @ + 1 ELSE @,
                              !.video = IF TruthyFile(video) THEN @ + 1 ELSE @]
        /\ UNCHANGED <<comments, reactions, inFlight, now, graph>>

\* A call of Post.create_post.
CreatePostCall ==
    \E creator \in Authors, circles_ids \in CirclesIdsArgs, image \in ImageArgs, text \in TextArgs,
       video \in VideoArgs, created \in CreatedArgs :
        /\ CreatePost(creator, circles_ids, image, text, video, created)
        /\ LET out == CreatePostOutcome(circles_ids, image, text, video)
           IN response' = [op |-> "create_post", text |-> text, image |-> image, video |-> video,
                           outcome |-> out.outcome, detail |-> out.detail,
                           post |-> IF out.outcome = "ok" THEN seq.post + 1 ELSE None]

\* The circles a PUT on the posts endpoint posts to.
TargetCircle(circle_id) == IF Truthy(circle_id) THEN circle_id ELSE WorldCircle

\* PUT on the posts endpoint by an authenticated user.
PutPost(user, text, image, video, circle_id) ==
    /\ CreatePost(user, {TargetCircle(circle_id)}, image, text, video, None)
    /\ LET out == CreatePostOutcome({TargetCircle(circle_id)}, image, text, video)
       IN response' = [op |-> "PUT", user |-> user, circle_id |-> circle_id,
                       status |-> IF out.outcome = "ok" THEN 201
                                  ELSE IF out.outcome = "ValidationError" THEN 400 ELSE 500,
                       post |-> IF out.outcome = "ok" THEN seq.post + 1 ELSE None]

PutPostRequest ==
    \E user \in Authors, text \in TextArgs \ {NullText}, image \in ImageArgs, video \in VideoArgs,
       circle_id \in {None} \cup UserCircles :
        PutPost(user, text, image, video, circle_id)

\* A later save of a Post row: the instance is loaded, changed and saved.
ResavePost(id, text) ==
    /\ id \in PostIds
    /\ posts' = (posts \ {PostWithId(id)}) \cup {PostSave([PostWithId(id) EXCEPT !.text = text], now)}
    /\ response' = [op |-> "save_post"]
    /\ UNCHANGED <<postImages, postVideos, postCircles, comments, reactions, inFlight, jobs, seq, now, graph>>

VideoWithId(id) == CHOOSE v \in postVideos : v.id = id

\* A later save of a PostVideo row, with another file: Model.save, then the
\* post_save receiver.
ResaveVideo(id, video) ==
    /\ id \in {v.id : v \in postVideos}
    /\ Len(jobs) < MaxJobs
    /\ postVideos' = (postVideos \ {VideoWithId(id)}) \cup {[VideoWithId(id) EXCEPT !.video = video]}
    /\ jobs' = ConvertVideo(jobs, id)
    /\ response' = [op |-> "save_video", pk |-> id]
    /\ UNCHANGED <<posts, postImages, postCircles, comments, reactions, inFlight, seq, now, graph>>

\* The queue's worker runs the oldest job still queued; the conversion ends
\* one way or the other.
RunJob(outcome) ==
    /\ \E i \in 1..Len(jobs) : jobs[i].status = "queued"
    /\ LET oldest == CHOOSE i \in 1..Len(jobs) :
                         /\ jobs[i].status = "queued"
                         /\ \A j \in 1..(i - 1) : jobs[j].status # "queued"
       IN jobs' = [jobs EXCEPT ![oldest].status = outcome]
    /\ response' = [op |-> "job"]
    /\ UNCHANGED <<posts, postImages, postVideos, postCircles, comments, reactions, inFlight, seq, now,
                   graph>>

\* The rows a delete of the given post takes with it.
CascadeOf(id) ==
    [images |-> {i \in postImages : i.post = id},
     videos |-> {v \in postVideos : v.post = id},
     circles |-> {pc \in postCircles : pc[1] = id},
     comments |-> {c \in comments : c.post = id},
     reactions |-> {r \in reactions : r.post = id}]

DeletePost_NoCascade(id) ==
    /\ id \in PostIds
    /\ posts' = posts \ {PostWithId(id)}
    /\ response' = [op |-> "delete_post", deleted |-> 1]
    /\ UNCHANGED <<postImages, postVideos, postCircles, comments, reactions, inFlight, jobs, seq, now, graph>>

\* post.delete(): every foreign key to Post is on_delete=CASCADE. It returns
\* the number of rows deleted.
DeletePost(id) ==
    /\ id \in PostIds
    /\ posts' = posts \ {PostWithId(id)}
    /\ postImages' = postImages \ CascadeOf(id).images
    /\ postVideos' = postVideos \ CascadeOf(id).videos
    /\ postCircles' = postCircles \ CascadeOf(id).circles
    /\ comments' = comments \ CascadeOf(id).comments
    /\ reactions' = reactions \ CascadeOf(id).reactions
    /\ response' = [op |-> "delete_post",
                    deleted |-> 1 + Cardinality(CascadeOf(id).images) + Cardinality(CascadeOf(id).videos)
                                  + Cardinality(CascadeOf(id).circles) + Cardinality(CascadeOf(id).comments)
                                  + Cardinality(CascadeOf(id).reactions)]
    /\ UNCHANGED <<inFlight, jobs, seq, now, graph>>

(* ---------------------------- PostComment ------------------------------ *)

CommentWithId(id) == CHOOSE c \in comments : c.id = id

\* PostComment.save: "On save, update timestamps", then Model.save.
CommentSave(instance, clock) ==
    IF ~Truthy(instance.id) THEN [instance EXCEPT !.created = clock] ELSE instance

\* post.comment(text, commenter): PostComment.create_comment.
Comment(post, text, commenter) ==
    /\ post \in PostIds
    /\ seq.comment < MaxComments
    /\ comments' = comments \cup
           {[CommentSave([id |-> None, post |-> post, created |-> None, commenter |-> commenter,
                          text |-> text], now) EXCEPT !.id = seq.comment + 1]}
    /\ seq' = [seq EXCEPT !.comment = @ + 1]
    /\ response' = [op |-> "comment"]
    /\ UNCHANGED <<posts, postImages, postVideos, postCircles, reactions, inFlight, jobs, now, graph>>

\* A later save of a PostComment row.
ResaveComment(id, text) ==
    /\ id \in {c.id : c \in comments}
    /\ comments' = (comments \ {CommentWithId(id)})
                       \cup {CommentSave([CommentWithId(id) EXCEPT !.text = text], now)}
    /\ response' = [op |-> "save_comment"]
    /\ UNCHANGED <<posts, postImages, postVideos, postCircles, reactions, inFlight, jobs, seq, now, graph>>

RemoveComment_AnyPost(post, post_comment_id) ==
    /\ post \in PostIds
    /\ comments' = {c \in comments : c.id # post_comment_id}
    /\ response' = [op |-> "remove_comment", post |-> post, id |-> post_comment_id]
    /\ UNCHANGED <<posts, postImages, postVideos, postCircles, reactions, inFlight, jobs, seq, now, graph>>

\* post.remove_comment_with_id(post_comment_id)
RemoveComment(post, post_comment_id) ==
    /\ post \in PostIds
    /\ comments' = {c \in comments : ~(c.post = post /\ c.id = post_comment_id)}
    /\ response' = [op |-> "remove_comment", post |-> post, id |-> post_comment_id]
    /\ UNCHANGED <<posts, postImages, postVideos, postCircles, reactions, inFlight, jobs, seq, now, graph>>

(* ---------------------------- PostReaction ----------------------------- *)

Workers == 1..MaxInFlight
\* A worker that is not inside Post.react.
Idle == [id |-> None, post |-> None, created |-> None, reactor |-> None, emoji |-> None]

ReactionWithId(id) == CHOOSE r \in reactions : r.id = id

\* PostReaction.save: "On save, update timestamps", then Model.save.
ReactionSave(instance, clock) ==
    IF ~Truthy(instance.id) THEN [instance EXCEPT !.created = clock] ELSE instance

UniqueTogether_Unchecked(rows, instance) == TRUE

\* Meta.unique_together = ('reactor', 'post'): whether the table accepts the row.
UniqueTogether(rows, instance) ==
    ~\E r \in rows : r.id # instance.id /\ r.reactor = instance.reactor /\ r.post = instance.post

\* The INSERT of Model.save: the constraints of the table decide.
ReactionInsertOutcome(instance) ==
    IF instance.post \notin PostIds THEN "IntegrityError"
    ELSE IF ~UniqueTogether(reactions, instance) THEN "IntegrityError"
    ELSE "ok"

ReactionInsert(instance) ==
    IF ReactionInsertOutcome(instance) = "ok"
    THEN /\ seq.reaction < MaxReactions
         /\ reactions' = reactions \cup {[instance EXCEPT !.id = seq.reaction + 1]}
         /\ seq' = [seq EXCEPT !.reaction = @ + 1]
    ELSE UNCHANGED <<reactions, seq>>

ReactResponse(instance) ==
    [op |-> "react", post |-> instance.post, reactor |-> instance.reactor,
     outcome |-> ReactionInsertOutcome(instance)]

\* post.react(reactor, emoji_id), run to completion: PostReaction.create_reaction.
React(post, reactor, emoji_id) ==
    /\ post \in PostIds
    /\ ReactionInsert(ReactionSave([id |-> None, post |-> post, created |-> None,
                                    reactor |-> reactor, emoji |-> emoji_id], now))
    /\ response' = ReactResponse([id |-> None, post |-> post, created |-> now,
                                  reactor |-> reactor, emoji |-> emoji_id])
    /\ UNCHANGED <<posts, postImages, postVideos, postCircles, comments, inFlight, jobs, now, graph>>

\* post.react in a request worker, up to the point where save() has set the
\* timestamp and is about to write.
ReactCall(worker, post, reactor, emoji_id) ==
    /\ inFlight[worker] = Idle
    /\ post \in PostIds
    /\ inFlight' = [inFlight EXCEPT ![worker] =
                        ReactionSave([id |-> None, post |-> post, created |-> None,
                                      reactor |-> reactor, emoji |-> emoji_id], now)]
    /\ response' = [op |-> "react_call"]
    /\ UNCHANGED <<db, now, graph>>

\* The worker's INSERT reaches the database.
ReactInsert(worker) ==
    /\ inFlight[worker] # Idle
    /\ ReactionInsert(inFlight[worker])
    /\ response' = ReactResponse(inFlight[worker])
    /\ inFlight' = [inFlight EXCEPT ![worker] = Idle]
    /\ UNCHANGED <<posts, postImages, postVideos, postCircles, comments, jobs, now, graph>>

\* A later save of a PostReaction row, with another emoji.
ResaveReaction(id, emoji_id) ==
    /\ id \in {r.id : r \in reactions}
    /\ reactions' = (reactions \ {ReactionWithId(id)})
                        \cup {ReactionSave([ReactionWithId(id) EXCEPT !.emoji = emoji_id], now)}
    /\ response' = [op |-> "save_reaction"]
    /\ UNCHANGED <<posts, postImages, postVideos, postCircles, comments, inFlight, jobs, seq, now, graph>>

\* post.remove_reaction_with_id(reaction_id)
RemoveReaction(post, reaction_id) ==
    /\ post \in PostIds
    /\ reactions' = {r \in reactions : ~(r.post = post /\ r.id = reaction_id)}
    /\ response' = [op |-> "remove_reaction", post |-> post, id |-> reaction_id]
    /\ UNCHANGED <<posts, postImages, postVideos, postCircles, comments, inFlight, jobs, seq, now, graph>>

(* ------------------------ counts of reactions ------------------------- *)

\* The orders in which a query without an ORDER BY, or with equal sort keys,
\* may return the rows of a set.
Orders(rows) ==
    {order \in [1..Cardinality(rows) -> rows] :
        \A i, j \in 1..Cardinality(rows) : i # j => order[i] # order[j]}

\* Emoji.objects.filter(emoji_query).distinct(): the emojis of the reactions on
\* the post, and of those with the given emoji when emoji_id is given.
EmojisReactedWith(post_id, emoji_id) ==
    {emoji \in Emojis :
        \E r \in reactions :
            /\ r.emoji = emoji
            /\ r.post = post_id
            /\ Truthy(emoji_id) => r.emoji = emoji_id}

\* PostReaction.objects.filter(reaction_query).count()
EmojiCount(post_id, emoji, reactor_id) ==
    Cardinality({r \in reactions :
        /\ r.post = post_id
        /\ r.emoji = emoji
        /\ Truthy(reactor_id) => r.reactor = reactor_id})

InsertByCount_Ascending(entry, sorted) ==
    LET at == CHOOSE i \in 1..(Len(sorted) + 1) :
                  /\ i = Len(sorted) + 1 \/ sorted[i].count >= entry.count
                  /\ \A j \in 1..(i - 1) : sorted[j].count < entry.count
    IN SubSeq(sorted, 1, at - 1) \o <<entry>> \o SubSeq(sorted, at, Len(sorted))

\* One step of the stable sort by count, largest first: the entry goes before
\* the entries that followed it and have no larger count.
InsertByCount(entry, sorted) ==
    LET at == CHOOSE i \in 1..(Len(sorted) + 1) :
                  /\ i = Len(sorted) + 1 \/ sorted[i].count <= entry.count
                  /\ \A j \in 1..(i - 1) : sorted[j].count > entry.count
    IN SubSeq(sorted, 1, at - 1) \o <<entry>> \o SubSeq(sorted, at, Len(sorted))

\* emoji_counts.sort(key=lambda x: x['count'], reverse=True)
RECURSIVE SortByCount(_)
SortByCount(emoji_counts) ==
    IF emoji_counts = <<>> THEN <<>>
    ELSE InsertByCount(Head(emoji_counts), SortByCount(Tail(emoji_counts)))

\* Post.get_emoji_counts_for_post_with_id(post_id, emoji_id, reactor_id)
GetEmojiCounts(post_id, emoji_id, reactor_id) ==
    \E emojis_reacted_with \in Orders(EmojisReactedWith(post_id, emoji_id)) :
        /\ response' = [op |-> "emoji_counts", post_id |-> post_id, emoji_id |-> emoji_id,
                        reactor_id |-> reactor_id,
                        emoji_counts |-> SortByCount(
                            [i \in 1..Len(emojis_reacted_with) |->
                                [emoji |-> emojis_reacted_with[i],
                                 count |-> EmojiCount(post_id, emojis_reacted_with[i], reactor_id)]])]
        /\ UNCHANGED <<db, inFlight, now, graph>>

\* annotate(Count('reactions'))
ReactionsCount(id) == Cardinality({r \in reactions : r.post = id})

TrendingOrder_CountOnly(p, q) == ReactionsCount(p.id) >= ReactionsCount(q.id)

\* order_by('-reactions__count', '-created'): whether row p may come before
\* row q.
TrendingOrder(p, q) ==
    \/ ReactionsCount(p.id) > ReactionsCount(q.id)
    \/ ReactionsCount(p.id) = ReactionsCount(q.id) /\ p.created >= q.created

\* Post.get_trending_posts()
GetTrendingPosts ==
    \E order \in Orders({p.id : p \in {q \in posts : <<q.id, WorldCircle>> \in postCircles}}) :
        /\ \A i, j \in 1..Len(order) :
               i < j => TrendingOrder(PostWithId(order[i]), PostWithId(order[j]))
        /\ response' = [op |-> "trending", posts |-> order]
        /\ UNCHANGED <<db, inFlight, now, graph>>

(* ------------------------- follows, connections ------------------------ *)

\* user.follow_user(followed, list=list): the list is optional and is one of
\* the user's own.
Follow(user, followed, list) ==
    /\ user # followed
    /\ list = None \/ list \in ListsOf(user)
    /\ ~\E f \in follows : f.user = user /\ f.followed = followed
    /\ Cardinality(follows) + Cardinality(connections) < MaxEdges
    /\ follows' = follows \cup {[user |-> user, followed |-> followed, list |-> list]}
    /\ response' = [op |-> "follow"]
    /\ UNCHANGED <<db, inFlight, now, connections>>

\* user.connect_with_user_with_id(target, circle_id=circle): the circle is one
\* of the user's own.
Connect(user, target, circle) ==
    /\ user # target
    /\ circle \in CirclesOf(user)
    /\ ~\E c \in connections : c.user = user /\ c.target = target
    /\ Cardinality(follows) + Cardinality(connections) < MaxEdges
    /\ connections' = connections \cup {[user |-> user, target |-> target, circle |-> circle]}
    /\ response' = [op |-> "connect"]
    /\ UNCHANGED <<db, inFlight, now, follows>>

(* -------------------------------- feed --------------------------------- *)

IsPublicPost_Always(id) == TRUE

\* post.is_public_post()
IsPublicPost(id) ==
    Cardinality({pc \in postCircles : pc[1] = id /\ pc[2] = WorldCircle}) = 1

\* The users the requester follows in the given lists, or is connected with in
\* the given circles.
FollowedIn(user, list_ids) ==
    {f.followed : f \in {x \in follows : x.user = user /\ x.list \in list_ids}}
ConnectedIn(user, circle_ids) ==
    {c.target : c \in {x \in connections : x.user = user /\ x.circle \in circle_ids}}

FeedAuthors_Everyone(requester, circle_ids, list_ids) ==
    {requester} \cup {f.followed : f \in {x \in follows : x.user = requester}}
                \cup {c.target : c \in {x \in connections : x.user = requester}}

\* The users whose posts an authenticated feed request shows.
FeedAuthors(requester, circle_ids, list_ids) ==
    IF circle_ids = {} /\ list_ids = {}
    THEN {requester} \cup {f.followed : f \in {x \in follows : x.user = requester}}
                     \cup {c.target : c \in {x \in connections : x.user = requester}}
    ELSE ConnectedIn(requester, circle_ids) \cup FollowedIn(requester, list_ids)

FeedPosts_UsernameIgnored(requester, circle_ids, list_ids, username) ==
    IF Truthy(requester)
    THEN {p.id : p \in {q \in posts : q.creator \in FeedAuthors(requester, circle_ids, list_ids)}}
    ELSE {p.id : p \in {q \in posts : q.creator = username /\ IsPublicPost(q.id)}}

\* The posts a feed request may show, before max_id and count.
FeedPosts(requester, circle_ids, list_ids, username) ==
    IF Truthy(username)
    THEN {p.id : p \in {q \in posts : q.creator = username /\ IsPublicPost(q.id)}}
    ELSE {p.id : p \in {q \in posts : q.creator \in FeedAuthors(requester, circle_ids, list_ids)}}

\* Ids from the newest down.
RECURSIVE NewestFirst(_)
NewestFirst(ids) ==
    IF ids = {} THEN <<>>
    ELSE LET newest == CHOOSE id \in ids : \A other \in ids : other <= id
         IN <<newest>> \o NewestFirst(ids \ {newest})

BelowMaxId_Ignored(ids, max_id) == ids

\* max_id: only posts with a smaller id.
BelowMaxId(ids, max_id) ==
    IF Truthy(max_id) THEN {id \in ids : id < max_id} ELSE ids

FirstCount_OneShort(list, count) ==
    IF Truthy(count) /\ count <= Len(list) THEN SubSeq(list, 1, count - 1) ELSE list

\* count: no more posts than that.
FirstCount(list, count) ==
    IF Truthy(count) /\ count < Len(list) THEN SubSeq(list, 1, count) ELSE list

\* GET on the posts endpoint. requester = None: no authentication, which needs
\* a username.
GetFeed(requester, count, max_id, circle_ids, list_ids, username) ==
    /\ Truthy(requester) \/ Truthy(username)
    /\ response' = [op |-> "GET", requester |-> requester, count |-> count, max_id |-> max_id,
                    circle_ids |-> circle_ids, list_ids |-> list_ids, username |-> username,
                    status |-> 200,
                    posts |-> FirstCount(NewestFirst(BelowMaxId(
                                  FeedPosts(requester, circle_ids, list_ids, username), max_id)), count)]
    /\ UNCHANGED <<db, inFlight, now, graph>>

\* The requests made: the whole feed, without and with a count; the public
\* posts of a user; a page of either; the feed of some circles or of some lists
\* of the requester.
GetFeedRequest ==
    \/ \E requester \in Users : GetFeed(requester, None, None, {}, {}, None)
    \/ \E requester \in Users, count \in 1..MaxPosts : GetFeed(requester, count, None, {}, {}, None)
    \/ \E requester \in {None} \cup Users, username \in Users :
           GetFeed(requester, None, None, {}, {}, username)
    \/ \E requester \in Users, count \in 1..MaxPosts, max_id \in 2..(MaxPosts + 1) :
           GetFeed(requester, count, max_id, {}, {}, None)
    \/ \E username \in Users, count \in 1..MaxPosts, max_id \in 2..(MaxPosts + 1) :
           GetFeed(None, count, max_id, {}, {}, username)
    \/ \E requester \in Users : \E circle_ids \in (SUBSET CirclesOf(requester)) \ {{}} :
           GetFeed(requester, None, None, circle_ids, {}, None)
    \/ \E requester \in Users : \E list_ids \in (SUBSET ListsOf(requester)) \ {{}} :
           GetFeed(requester, None, None, {}, list_ids, None)

(* --------------------------- specifications ---------------------------- *)

\* Post creation, by calls of Post.create_post and through the endpoint.
NextPosts ==
    \/ CreatePostCall
    \/ PutPostRequest

SpecPosts == Init /\ [][NextPosts]_vars

\* Rows saved for the first time and saved again, as the clock advances.
NextSaves ==
    \/ Tick
    \/ \E user \in Authors : PutPost(user, "hello", NoFile, NoFile, None)
    \/ \E id \in 1..MaxPosts : ResavePost(id, "edited")
    \/ \E post \in 1..MaxPosts, commenter \in Authors : Comment(post, "nice", commenter)
    \/ \E id \in 1..MaxComments : ResaveComment(id, "edited")
    \/ \E post \in 1..MaxPosts, reactor \in Authors, emoji_id \in Emojis : React(post, reactor, emoji_id)
    \/ \E id \in 1..MaxReactions, emoji_id \in Emojis : ResaveReaction(id, emoji_id)

SpecSaves == Init /\ [][NextSaves]_vars

\* Public posts with their images, videos, comments and reactions, removed
\* one by one or with their post.
NextRows ==
    \/ \E user \in Authors, image \in ImageArgs, video \in VideoArgs :
           PutPost(user, "hello", image, video, None)
    \/ \E id \in 1..MaxPosts : DeletePost(id)
    \/ \E post \in 1..MaxPosts, commenter \in Authors : Comment(post, "nice", commenter)
    \/ \E post \in 1..MaxPosts, id \in 1..MaxComments : RemoveComment(post, id)
    \/ \E post \in 1..MaxPosts, reactor \in Authors, emoji_id \in Emojis : React(post, reactor, emoji_id)
    \/ \E post \in 1..MaxPosts, id \in 1..MaxReactions : RemoveReaction(post, id)

SpecRows == Init /\ [][NextRows]_vars

\* Reactions made by concurrent request workers.
NextReactions ==
    \/ \E user \in Authors : PutPost(user, "hello", NoFile, NoFile, None)
    \/ \E id \in 1..MaxPosts : DeletePost(id)
    \/ \E worker \in Workers, post \in 1..MaxPosts, reactor \in Authors, emoji_id \in Emojis :
           ReactCall(worker, post, reactor, emoji_id)
    \/ \E worker \in Workers : ReactInsert(worker)
    \/ \E post \in 1..MaxPosts, id \in 1..MaxReactions : RemoveReaction(post, id)

SpecReactions == Init /\ [][NextReactions]_vars

\* The feed over text posts, public or in a circle of their creator.
NextFeed ==
    \/ \E user \in Users, circle_id \in {None} \cup UserCircles :
           /\ circle_id = None \/ circle_id \in CirclesOf(user)
           /\ PutPost(user, "hello", NoFile, NoFile, circle_id)
    \/ \E user \in Users, followed \in Users, list \in {None} \cup Lists : Follow(user, followed, list)
    \/ \E user \in Users, target \in Users, circle \in UserCircles : Connect(user, target, circle)
    \/ GetFeedRequest

SpecFeed == Init /\ [][NextFeed]_vars

\* Posts with and without a video, the videos saved again, and the worker of
\* the job queue.
NextVideos ==
    \/ \E user \in Authors, video \in VideoArgs : PutPost(user, "hello", NoFile, video, None)
    \/ \E id \in 1..MaxPosts, video \in {"a.mp4", "b.mp4"} : ResaveVideo(id, video)
    \/ \E outcome \in {"finished", "failed"} : RunJob(outcome)
    \/ \E id \in 1..MaxPosts : DeletePost(id)

SpecVideos == Init /\ [][NextVideos]_vars

\* Reactions on public posts and on posts in a circle, counted by emoji and
\* by post.
NextCounts ==
    \/ Tick
    \/ \E user \in Authors, circle_id \in {None} \cup UserCircles :
           /\ circle_id = None \/ circle_id \in CirclesOf(user)
           /\ PutPost(user, "hello", NoFile, NoFile, circle_id)
    \/ \E post \in 1..MaxPosts, reactor \in Authors, emoji_id \in Emojis : React(post, reactor, emoji_id)
    \/ \E post \in 1..MaxPosts, id \in 1..MaxReactions : RemoveReaction(post, id)
    \/ \E post_id \in 1..MaxPosts, emoji_id \in {None} \cup Emojis, reactor_id \in {None} \cup Authors :
           GetEmojiCounts(post_id, emoji_id, reactor_id)
    \/ GetTrendingPosts

SpecCounts == Init /\ [][NextCounts]_vars

Next == NextPosts \/ NextSaves \/ NextRows \/ NextReactions \/ NextFeed \/ NextVideos \/ NextCounts

Spec == Init /\ [][Next]_vars

(* ------------------------- claims on create_post ----------------------- *)

ImageOf(id) == {i \in postImages : i.post = id}
VideoOf(id) == {v \in postVideos : v.post = id}
\* user.posts and circle.posts, in a state given by its tables
PostsOfUser(rows, user) == {p.id : p \in {q \in rows : q.creator = user}}
PostsOfCircle(through, circle) == {pc[1] : pc \in {x \in through : x[2] = circle}}

\* C1: every persisted Post row has a non-empty text, a PostImage or a PostVideo,
\* whatever create_post calls were made, those that raised part-way included.
C1_EveryPostHasContent ==
    \A p \in posts : p.text \notin {NullText, ""} \/ ImageOf(p.id) # {} \/ VideoOf(p.id) # {}

\* C2: no Post has both a PostImage and a PostVideo, and none has two of either;
\* a create_post call that was given both has created no post.
C2_NeverImageAndVideo ==
    /\ \A p \in posts :
        /\ Cardinality(ImageOf(p.id)) <= 1
        /\ Cardinality(VideoOf(p.id)) <= 1
        /\ ImageOf(p.id) = {} \/ VideoOf(p.id) = {}
    /\ (response.op = "create_post" /\ response.image # NoFile /\ response.video # NoFile)
        => response.outcome = "ValidationError" /\ response.post = None

\* A create_post call with both files was just rejected while posts with an
\* image and posts with a video exist.
C2_Witness ==
    /\ response.op = "create_post"
    /\ response.image # NoFile /\ response.video # NoFile
    /\ \E p \in posts : ImageOf(p.id) # {}
    /\ \E p \in posts : VideoOf(p.id) # {}

\* The arguments create_post must reject.
C3_Rejected(r) ==
    \/ r.text \in {NullText, ""} /\ r.image = NoFile /\ r.video = NoFile
    \/ r.image # NoFile /\ r.video # NoFile

\* C3: create_post without text, image and video, or with both an image and a
\* video, raises a validation error and writes nothing: no row of any table, no
\* circle membership, no conversion job.
C3_RejectedPersistsNothing ==
    [][(response'.op = "create_post" /\ C3_Rejected(response'))
        => /\ response'.outcome = "ValidationError"
           /\ response'.post = None
           /\ UNCHANGED <<posts, postImages, postVideos, postCircles, jobs, seq>>]_vars

\* A call without content was rejected after posts and a conversion job existed.
C3_Witness ==
    /\ response.op = "create_post"
    /\ response.text = "" /\ response.image = NoFile /\ response.video = NoFile
    /\ response.outcome = "ValidationError"
    /\ posts # {} /\ Len(jobs) > 0

\* C7: a PUT answered 201 adds exactly one post to the creator's posts and
\* exactly one to the posts of its target circle: the world circle without
\* circle_id, the given circle with it.
C7_PutAddsOnePost ==
    [][(response'.op = "PUT" /\ response'.status = 201) =>
        LET user == response'.user
            target == IF response'.circle_id = None THEN WorldCircle ELSE response'.circle_id
        IN /\ PostsOfUser(posts, user) \subseteq PostsOfUser(posts', user)
           /\ Cardinality(PostsOfUser(posts', user) \ PostsOfUser(posts, user)) = 1
           /\ PostsOfCircle(postCircles, target) \subseteq PostsOfCircle(postCircles', target)
           /\ Cardinality(PostsOfCircle(postCircles', target) \ PostsOfCircle(postCircles, target)) = 1
           /\ PostsOfUser(posts', user) \ PostsOfUser(posts, user) = {response'.post}
           /\ PostsOfCircle(postCircles', target) \ PostsOfCircle(postCircles, target) = {response'.post}
    ]_vars

\* A PUT with a circle_id was answered 201 and its post is in that circle, after
\* an earlier post went to the world circle.
C7_Witness ==
    /\ response.op = "PUT" /\ response.status = 201
    /\ response.circle_id # None
    /\ <<response.post, response.circle_id>> \in postCircles
    /\ PostsOfCircle(postCircles, WorldCircle) # {}

(* --------------------- claims on the rows of a post -------------------- *)

\* C4: there is at most one PostReaction row for each (reactor, post) pair,
\* whatever react and remove_reaction_with_id calls were made, react calls of
\* one user on one post by concurrent workers included.
C4_OneReactionPerReactorAndPost ==
    \A r1, r2 \in reactions :
        (r1.reactor = r2.reactor /\ r1.post = r2.post) => r1 = r2

\* A worker's reaction was written while another worker was inside react for
\* the same reactor and post.
C4_Witness ==
    /\ response.op = "react" /\ response.outcome = "ok"
    /\ \E r \in reactions : r.reactor = response.reactor /\ r.post = response.post
    /\ \E worker \in Workers :
        /\ inFlight[worker].post = response.post
        /\ inFlight[worker].reactor = response.reactor

\* Rows of a table before and after a step: a row that stays keeps its created,
\* a new row has one.
C5_CreatedKept(before, after) ==
    /\ \A r \in before : \A r2 \in after : r.id = r2.id => r2.created = r.created
    /\ \A r2 \in after : r2.created # None

\* C5: the created timestamp of a Post, PostComment or PostReaction row is set
\* when the row is first saved and no later save of the row changes it.
C5_CreatedSetOnceOnFirstSave ==
    [][/\ C5_CreatedKept(posts, posts')
       /\ C5_CreatedKept(comments, comments')
       /\ C5_CreatedKept(reactions, reactions')
       /\ \A r2 \in comments' : r2.id \notin {r.id : r \in comments} => r2.created = now
       /\ \A r2 \in reactions' : r2.id \notin {r.id : r \in reactions} => r2.created = now
    ]_vars

\* A post, a comment and a reaction, each saved again after the clock moved on.
C5_Witness ==
    /\ \E p \in posts : p.text = "edited" /\ p.created < now
    /\ \E c \in comments : c.text = "edited" /\ c.created < now
    /\ \E r \in reactions : r.created < now
    /\ response.op = "save_reaction"

\* Every row that refers to a post refers to a Post row.
C6_NoDanglingRow(rows, images, videos, through, coms, reacts) ==
    LET ids == {p.id : p \in rows}
    IN /\ \A i \in images : i.post \in ids
       /\ \A v \in videos : v.post \in ids
       /\ \A pc \in through : pc[1] \in ids
       /\ \A c \in coms : c.post \in ids
       /\ \A r \in reacts : r.post \in ids

\* C6: deleting a Post deletes every PostComment, PostReaction, PostImage and
\* PostVideo that refers to it, so no row refers to a missing Post, and leaves
\* the rows of the other posts as they were.
C6_DeleteCascades ==
    [][response'.op = "delete_post" =>
        \E id \in PostIds :
            /\ posts' = {p \in posts : p.id # id}
            /\ postImages' = {i \in postImages : i.post # id}
            /\ postVideos' = {v \in postVideos : v.post # id}
            /\ comments' = {c \in comments : c.post # id}
            /\ reactions' = {r \in reactions : r.post # id}
            /\ C6_NoDanglingRow(posts', postImages', postVideos', postCircles', comments', reactions')
    ]_vars

\* A post was deleted with at least an image or video, a comment and a reaction
\* of its own, and the other post still has its own.
C6_Witness ==
    /\ response.op = "delete_post" /\ response.deleted >= 5
    /\ posts # {}
    /\ reactions # {}
    /\ postImages \cup postVideos # {}

(* --------------------------- claims on the feed ------------------------ *)

\* The ids a response lists.
Returned(r) == {r.posts[i] : i \in 1..Len(r.posts)}

\* The public posts of a user: those in the world circle.
PublicPostsOf(user) ==
    {p.id : p \in {q \in posts : q.creator = user /\ <<q.id, WorldCircle>> \in postCircles}}

\* The posts of the users a requester follows, is connected with, or is.
C8_Timeline(requester) ==
    {p.id : p \in {q \in posts :
        \/ q.creator = requester
        \/ \E f \in follows : f.user = requester /\ f.followed = q.creator
        \/ \E c \in connections : c.user = requester /\ c.target = q.creator}}

\* The posts a paged request chooses from.
C8_Visible(r) ==
    IF r.requester = None THEN PublicPostsOf(r.username) ELSE C8_Timeline(r.requester)

\* C8: a feed request with max_id and count, authenticated or not, returns at
\* most count posts, all with an id below max_id, and exactly count of them
\* when that many visible posts have an id below max_id.
C8_PageRespectsMaxIdAndCount ==
    (response.op = "GET" /\ response.count # None /\ response.max_id # None) =>
        /\ Len(response.posts) <= response.count
        /\ \A id \in Returned(response) : id < response.max_id
        /\ Cardinality({id \in C8_Visible(response) : id < response.max_id}) >= response.count
            => Len(response.posts) = response.count

\* An unauthenticated page of exactly count posts that leaves out a public
\* post of the user because of its id.
C8_Witness ==
    /\ response.op = "GET" /\ response.requester = None
    /\ response.count # None /\ response.max_id # None
    /\ Len(response.posts) = response.count
    /\ \E id \in PublicPostsOf(response.username) : id >= response.max_id

\* C9: an unauthenticated request for a username returns public posts of that
\* user only, never a post that is only in the user's own circles, and, when
\* not paged, every public post of the user, once.
C9_UnauthenticatedSeesPublicOnly ==
    (response.op = "GET" /\ response.requester = None) =>
        /\ Returned(response) \subseteq PublicPostsOf(response.username)
        /\ (response.count = None /\ response.max_id = None) =>
            /\ Returned(response) = PublicPostsOf(response.username)
            /\ Len(response.posts) = Cardinality(PublicPostsOf(response.username))

\* An unauthenticated request returned a user's public post while the user
\* also has a post that is in a circle of their own only.
C9_Witness ==
    /\ response.op = "GET" /\ response.requester = None
    /\ response.count = None /\ response.max_id = None
    /\ Len(response.posts) > 0
    /\ \E p \in posts :
        /\ p.creator = response.username
        /\ <<p.id, WorldCircle>> \notin postCircles
        /\ \E circle \in UserCircles : <<p.id, circle>> \in postCircles

\* The posts of the users the requester is connected with in the circles
\* named, or follows in the lists named.
C10_PostsOfMembers(r) ==
    {p.id : p \in {q \in posts :
        \/ \E c \in connections :
            c.user = r.requester /\ c.circle \in r.circle_ids /\ c.target = q.creator
        \/ \E f \in follows :
            f.user = r.requester /\ f.list \in r.list_ids /\ f.followed = q.creator}}

\* C10: a request of an authenticated user with a circle_id or list_id filter
\* naming circles or lists of their own returns exactly the posts of the users
\* connected with in those circles or followed in those lists, once each, and
\* none of a user who is only in the requester's other circles or lists.
C10_FilterRestrictsToMembers ==
    (response.op = "GET" /\ response.requester # None
        /\ (response.circle_ids # {} \/ response.list_ids # {})) =>
        /\ Returned(response) = C10_PostsOfMembers(response)
        /\ Len(response.posts) = Cardinality(C10_PostsOfMembers(response))

\* A circle filter returned the post of the user connected in the circle named
\* and left out the post of a user connected in another circle.
C10_Witness ==
    /\ response.op = "GET" /\ response.requester # None
    /\ response.circle_ids # {}
    /\ Len(response.posts) > 0
    /\ \E c \in connections, p \in posts :
        /\ c.user = response.requester /\ c.circle \notin response.circle_ids
        /\ p.creator = c.target
        /\ p.id \notin Returned(response)

\* C11: an unfiltered feed request of an authenticated user, with a count of at
\* least the number of posts of the requester, of the users they follow and of
\* the users they are connected with, returns each of those posts once and
\* nothing else.
C11_WholeFeedReturned ==
    (response.op = "GET" /\ response.requester # None /\ response.username = None
        /\ response.circle_ids = {} /\ response.list_ids = {} /\ response.max_id = None
        /\ response.count # None
        /\ response.count >= Cardinality(C8_Timeline(response.requester))) =>
        /\ Returned(response) = C8_Timeline(response.requester)
        /\ Len(response.posts) = Cardinality(C8_Timeline(response.requester))

\* A request with count equal to the number of visible posts returned the post
\* of a followed user and the post of a connected user.
C11_Witness ==
    /\ response.op = "GET" /\ response.requester # None /\ response.username = None
    /\ response.circle_ids = {} /\ response.list_ids = {} /\ response.max_id = None
    /\ response.count = Cardinality(C8_Timeline(response.requester))
    /\ \E p \in posts, f \in follows :
        f.user = response.requester /\ f.followed = p.creator /\ p.id \in Returned(response)
    /\ \E p \in posts, c \in connections :
        c.user = response.requester /\ c.target = p.creator /\ p.id \in Returned(response)

\* C12: a feed request of an authenticated user with a username returns only
\* posts created by the named user, and, when not paged, every public post of
\* that user.
C12_UsernameRestrictsToCreator ==
    (response.op = "GET" /\ response.requester # None /\ response.username # None) =>
        /\ Returned(response) \subseteq PostsOfUser(posts, response.username)
        /\ (response.count = None /\ response.max_id = None) =>
            PublicPostsOf(response.username) \subseteq Returned(response)

\* An authenticated request for a followed user returned that user's public
\* post and left out the requester's own post.
C12_Witness ==
    /\ response.op = "GET" /\ response.requester # None /\ response.username # None
    /\ response.username # response.requester
    /\ \E f \in follows : f.user = response.requester /\ f.followed = response.username
    /\ Returned(response) # {}
    /\ \E p \in posts : p.creator = response.requester /\ p.id \notin Returned(response)

(* ------------------------ claims on the job queue ---------------------- *)

\* The job convert_video puts on the queue for the PostVideo row with that key.
C13_Job(pk) ==
    [task |-> "convert_all_videos", app_label |-> "openbook_posts", model_name |-> "postvideo",
     pk |-> pk, status |-> "queued"]

\* C13: every save of a PostVideo row, the one create_post makes for a video
\* included, puts exactly one job on the queue, with the row's app label, model
\* name and primary key, the key of a row that is in the table by then; a step
\* that saves no PostVideo row puts none; and create_post returns with the job
\* still queued, whatever became of the earlier jobs.
C13_SaveEnqueuesOneJob ==
    [][LET created == {v \in postVideos' : v.id \notin {w.id : w \in postVideos}}
           resaved == {v \in postVideos' : response'.op = "save_video" /\ v.id = response'.pk}
           saved == created \cup resaved
       IN /\ Cardinality(saved) <= 1
          /\ saved = {} => Len(jobs') = Len(jobs)
          /\ \A v \in saved :
              /\ Len(jobs') = Len(jobs) + 1
              /\ SubSeq(jobs', 1, Len(jobs)) = jobs
              /\ jobs'[Len(jobs')] = C13_Job(v.id)
          /\ response'.op = "PUT" =>
              /\ response'.status = 201
              /\ \A v \in created : v.post = response'.post
    ]_vars

\* A post with a video was just created, its job is the last of the queue and
\* still queued, an earlier job failed, and a row saved twice has two jobs.
C13_Witness ==
    /\ response.op = "PUT" /\ response.status = 201
    /\ Len(jobs) >= 3
    /\ \E v \in postVideos :
        /\ v.post = response.post
        /\ jobs[Len(jobs)].pk = v.id /\ jobs[Len(jobs)].status = "queued"
    /\ \E i \in 1..Len(jobs) : jobs[i].status = "failed"
    /\ \E i, j \in 1..Len(jobs) : i # j /\ jobs[i].pk = jobs[j].pk

(* ----------------------- claims on reaction counts --------------------- *)

\* The reactions on a post with an emoji.
C14_ReactionsWith(post, emoji) == {r \in reactions : r.post = post /\ r.emoji = emoji}

\* C14: get_emoji_counts_for_post_with_id returns exactly one entry for each
\* emoji that has a reaction on the post, by whomever (for emoji_id only, when
\* it is given); the count of an entry is the number of reactions on the post
\* with its emoji, of reactor_id only when it is given; and no entry has a
\* larger count than the one before it.
C14_EmojiCountsExact ==
    response.op = "emoji_counts" =>
        LET out == response.emoji_counts
            wanted == {emoji \in Emojis :
                          /\ C14_ReactionsWith(response.post_id, emoji) # {}
                          /\ response.emoji_id # None => emoji = response.emoji_id}
        IN /\ {out[i].emoji : i \in 1..Len(out)} = wanted
           /\ Len(out) = Cardinality(wanted)
           /\ \A i \in 1..Len(out) :
                  out[i].count = Cardinality({r \in C14_ReactionsWith(response.post_id, out[i].emoji) :
                                                  response.reactor_id # None => r.reactor = response.reactor_id})
           /\ \A i \in 1..(Len(out) - 1) : out[i].count >= out[i + 1].count

\* Counts for one reactor on a post with reactions of two emojis: the emoji
\* of the reactor comes first, although its id is the larger, and the other
\* emoji has an entry with count 0.
C14_Witness ==
    /\ response.op = "emoji_counts" /\ response.reactor_id # None /\ response.emoji_id = None
    /\ Len(response.emoji_counts) = 2
    /\ response.emoji_counts[1].count = 1 /\ response.emoji_counts[2].count = 0
    /\ response.emoji_counts[1].emoji > response.emoji_counts[2].emoji

\* The number of reactions on a post, and the post's created.
C15_Reactions(id) == Cardinality({r \in reactions : r.post = id})
C15_Created(id) == (CHOOSE p \in posts : p.id = id).created

\* C15: get_trending_posts returns exactly the posts in the world circle, each
\* once, those with more reactions first and, among posts with as many
\* reactions, those created later first.
C15_TrendingPostsOrdered ==
    response.op = "trending" =>
        LET out == response.posts
            world == {p.id : p \in {q \in posts : <<q.id, WorldCircle>> \in postCircles}}
        IN /\ Returned(response) = world
           /\ Len(out) = Cardinality(world)
           /\ \A i, j \in 1..Len(out) : i < j =>
                  \/ C15_Reactions(out[i]) > C15_Reactions(out[j])
                  \/ /\ C15_Reactions(out[i]) = C15_Reactions(out[j])
                     /\ C15_Created(out[i]) >= C15_Created(out[j])

\* Two public posts with one reaction each, created at different times: the
\* later one is listed first.
C15_Witness ==
    /\ response.op = "trending"
    /\ Len(response.posts) = 2
    /\ C15_Reactions(response.posts[1]) = 1 /\ C15_Reactions(response.posts[2]) = 1
    /\ C15_Created(response.posts[1]) > C15_Created(response.posts[2])

(* ------------------- claims on removing comments, reactions ------------ *)

\* The rows left after the removal asked of a post: without the row with that
\* id when it is a row of the post, all of them otherwise.
C16_Remaining(rows, post, id) ==
    IF \E row \in rows : row.id = id /\ row.post = post
    THEN rows \ {row \in rows : row.id = id}
    ELSE rows

\* C16: remove_comment_with_id and remove_reaction_with_id delete the row with
\* the id given only when it is a row of the post they are called on; with the
\* id of a row of another post, or an id no row has, they delete nothing, and
\* in every case all other comments and reactions stay as they were.
C16_RemoveOnlyOwnRow ==
    [][/\ response'.op = "remove_comment" =>
           /\ comments' = C16_Remaining(comments, response'.post, response'.id)
           /\ reactions' = reactions
       /\ response'.op = "remove_reaction" =>
           /\ reactions' = C16_Remaining(reactions, response'.post, response'.id)
           /\ comments' = comments
    ]_vars

\* remove_comment_with_id was called on a post with the id of a comment on
\* another post, and the comment is still there, as are reactions.
C16_Witness ==
    /\ response.op = "remove_comment"
    /\ \E c \in comments : c.id = response.id /\ c.post # response.post
    /\ reactions # {}

====
